---------------------------- MODULE Spec2Model ----------------------------
(***************************************************************************)
(* Model of the BCBS-239 readiness assessment (src/readiness_app.py, with  *)
(* the revised catalogue of src/app.py): the session state of one          *)
(* Streamlit session, the script runs triggered by its buttons and radio   *)
(* widgets, and the scoring, classification, recommendation and export     *)
(* functions; then two sessions on one server, with the answers dicts as   *)
(* objects that session states and export snapshots refer to.              *)
(*                                                                         *)
(* Question texts are abbreviated: "G1".."G3" are the three questions of   *)
(* "Governance & Ownership" in source order, "Q1".."Q4" those of "Data     *)
(* Quality & Controls", "T1".."T5" those of "Data Timeliness, SLA & Feed   *)
(* Controls" (src/app.py only), "L1".."L3" those of "Lineage &             *)
(* Traceability", "B1".."B4" those of "BCBS-239 Specific Controls" and     *)
(* "O1".."O3" those of "Operational Resilience & Auditability".            *)
(* Python dicts that are iterated (SECTIONS, a section's questions,        *)
(* section_scores) are sequences in insertion order; weights are kept in   *)
(* twentieths (0.20 is 4, 0.05 is 1).                                      *)
(***************************************************************************)
EXTENDS Integers, Sequences, FiniteSets, TLC

VARIABLES
    rev,        \* which catalogue revision the process loaded: 1 = readiness_app.py, 2 = app.py
    keys,       \* the keys present in st.session_state
    started,    \* st.session_state.started
    answers,    \* st.session_state.answers: a dict question -> level
    widgets,    \* Streamlit's widget state of the keyed radio widgets: question -> level
    shown,      \* what the last script run rendered (landing page, or results and exports)
    nsel,       \* number of radio selections made so far (bounded by MaxSelections)
    probe,      \* input and result of a direct call of a pure helper (SpecFn only)
    server      \* the Streamlit server process with two sessions and the dict
                \* objects their session states refer to (SpecSessions only)

vars == <<rev, keys, started, answers, widgets, shown, nsel, probe, server>>

\* Bound: how many radio selections one explored session makes.
MaxSelections == 1

-----------------------------------------------------------------------------
(* DATA STRUCTURES *)

\* the options list of every question, in source order
OPTIONS == <<"Initial", "Developing", "Defined", "Managed", "Optimised">>

Levels == {OPTIONS[i] : i \in 1..Len(OPTIONS)}

\* SCORE_MAP with a zero dropped from the top level's score
SCORE_MAP_get_typo(answer) ==
    CASE answer = "Initial"    -> 20
      [] answer = "Developing" -> 40
      [] answer = "Defined"    -> 60
      [] answer = "Managed"    -> 80
      [] answer = "Optimised"  -> 10
      [] OTHER                 -> 0

\* SCORE_MAP.get(answer, 0)
SCORE_MAP_get(answer) ==
    CASE answer = "Initial"    -> 20
      [] answer = "Developing" -> 40
      [] answer = "Defined"    -> 60
      [] answer = "Managed"    -> 80
      [] answer = "Optimised"  -> 100
      [] OTHER                 -> 0

\* SECTIONS of src/readiness_app.py
SECTIONS_readiness_app ==
    << [name |-> "Governance & Ownership", weight |-> 4,
        questions |-> <<"G1", "G2", "G3">>],
       [name |-> "Data Quality & Controls", weight |-> 6,
        questions |-> <<"Q1", "Q2", "Q3", "Q4">>],
       [name |-> "Lineage & Traceability", weight |-> 4,
        questions |-> <<"L1", "L2", "L3">>],
       [name |-> "BCBS-239 Specific Controls", weight |-> 4,
        questions |-> <<"B1", "B2", "B3", "B4">>],
       [name |-> "Operational Resilience & Auditability", weight |-> 2,
        questions |-> <<"O1", "O2", "O3">>] >>

\* SECTIONS_app with the section added but the old weights kept (sum 1.1)
SECTIONS_app_not_rebalanced ==
    << [name |-> "Governance & Ownership", weight |-> 4,
        questions |-> <<"G1", "G2", "G3">>],
       [name |-> "Data Quality & Controls", weight |-> 6,
        questions |-> <<"Q1", "Q2", "Q3", "Q4">>],
       [name |-> "Data Timeliness, SLA & Feed Controls", weight |-> 2,
        questions |-> <<"T1", "T2", "T3", "T4", "T5">>],
       [name |-> "Lineage & Traceability", weight |-> 4,
        questions |-> <<"L1", "L2", "L3">>],
       [name |-> "BCBS-239 Specific Controls", weight |-> 4,
        questions |-> <<"B1", "B2", "B3", "B4">>],
       [name |-> "Operational Resilience & Auditability", weight |-> 2,
        questions |-> <<"O1", "O2", "O3">>] >>

\* SECTIONS of src/app.py (one section added, weights rebalanced)
SECTIONS_app ==
    << [name |-> "Governance & Ownership", weight |-> 4,
        questions |-> <<"G1", "G2", "G3">>],
       [name |-> "Data Quality & Controls", weight |-> 5,
        questions |-> <<"Q1", "Q2", "Q3", "Q4">>],
       [name |-> "Data Timeliness, SLA & Feed Controls", weight |-> 2,
        questions |-> <<"T1", "T2", "T3", "T4", "T5">>],
       [name |-> "Lineage & Traceability", weight |-> 4,
        questions |-> <<"L1", "L2", "L3">>],
       [name |-> "BCBS-239 Specific Controls", weight |-> 4,
        questions |-> <<"B1", "B2", "B3", "B4">>],
       [name |-> "Operational Resilience & Auditability", weight |-> 1,
        questions |-> <<"O1", "O2", "O3">>] >>

Revisions == {1, 2}

\* the catalogue a process of revision r has loaded
ShippedCatalogue(r) == IF r = 1 THEN SECTIONS_readiness_app ELSE SECTIONS_app

\* Edited catalogues, for calls of compute_scores on a SECTIONS dict that is
\* not one of the two shipped: revision base with the questions of section i
\* removed, and revision base with the weight of section i set to w twentieths.
\* The numbers identify the edit: base is the last digit.
Emptied(base, i) == 10 * i + base
Reweighted(base, i, w) == 100 * w + 10 * i + base

\* the weights the sources use: 0.05, 0.10, 0.20, 0.25, 0.30
WeightLiterals == {1, 2, 4, 5, 6}

EditedCatalogues ==
    {Emptied(base, i) : base \in Revisions, i \in 1..Len(SECTIONS_readiness_app)}
    \cup {Emptied(2, Len(SECTIONS_app))}
    \cup {Reweighted(base, i, w) :
             base \in Revisions, i \in 1..Len(SECTIONS_readiness_app), w \in WeightLiterals}
    \cup {Reweighted(2, Len(SECTIONS_app), w) : w \in WeightLiterals}

\* the SECTIONS dict of an edited catalogue
EditedSECTIONS(r) ==
    IF r < 100
    THEN [ShippedCatalogue(r % 10) EXCEPT ![r \div 10].questions = << >>]
    ELSE [ShippedCatalogue(r % 10) EXCEPT ![(r \div 10) % 10].weight = r \div 100]

SECTIONS(r) ==
    IF r = 1 THEN SECTIONS_readiness_app
    ELSE IF r = 2 THEN SECTIONS_app
    ELSE EditedSECTIONS(r)

\* elements of a sequence
Range(seq) == {seq[i] : i \in 1..Len(seq)}

\* every question of the catalogue
Questions(r) == UNION {Range(SECTIONS(r)[i].questions) : i \in 1..Len(SECTIONS(r))}

\* the section (index) a question belongs to
SectionOf(r, q) == CHOOSE i \in 1..Len(SECTIONS(r)) : q \in Range(SECTIONS(r)[i].questions)

\* section_scores[name] of a dict kept as a sequence of [section, score] items
dict_get(section_scores, name) ==
    section_scores[CHOOSE i \in 1..Len(section_scores) :
                       section_scores[i].section = name].score

-----------------------------------------------------------------------------
(* IEEE-754 double arithmetic of the overall score                          *)
(*                                                                          *)
(* compute_scores multiplies each integer section score by a float weight   *)
(* and adds the products left to right (sum() starts at 0), every operation *)
(* rounding to the nearest double, ties to even; round() then rounds the    *)
(* double to the nearest integer, ties to even.  A double x is kept here as *)
(* a pair [a, r] with x = a/20 + r * ErrUnit, ErrUnit = 2^-57 / 20: a/20 is *)
(* the decimal value the arithmetic would have without rounding errors, r   *)
(* the accumulated error.  All values that occur are below 128.             *)

\* 2^n for n in 0..14
Pow2(n) == <<1, 2, 4, 8, 16, 32, 64, 128, 256, 512, 1024, 2048, 4096, 8192, 16384>>[n + 1]

\* 2^n modulo 5
Pow2Mod5(n) == <<1, 2, 4, 3>>[(n % 4) + 1]

\* the double nearest to the literal w/20 is w/20 + WeightErr(w) * ErrUnit
\* (0.05, 0.10, 0.20, 0.25, 0.30)
WeightErr(w) ==
    CASE w = 1 -> 8
      [] w = 2 -> 16
      [] w = 4 -> 32
      [] w = 5 -> 0
      [] w = 6 -> -32

\* whether 2^k <= a/20 + r * ErrUnit
AtLeastPow2(k, a, r) ==
    \/ a * 32 > 20 * Pow2(k + 5)
    \/ a * 32 = 20 * Pow2(k + 5) /\ r >= 0

\* the binade of a/20 + r * ErrUnit: the largest k in -5..6 with 2^k <= the value
Binade(a, r) ==
    IF AtLeastPow2(6, a, r) THEN 6 ELSE IF AtLeastPow2(5, a, r) THEN 5
    ELSE IF AtLeastPow2(4, a, r) THEN 4 ELSE IF AtLeastPow2(3, a, r) THEN 3
    ELSE IF AtLeastPow2(2, a, r) THEN 2 ELSE IF AtLeastPow2(1, a, r) THEN 1
    ELSE IF AtLeastPow2(0, a, r) THEN 0 ELSE IF AtLeastPow2(-1, a, r) THEN -1
    ELSE IF AtLeastPow2(-2, a, r) THEN -2 ELSE IF AtLeastPow2(-3, a, r) THEN -3
    ELSE IF AtLeastPow2(-4, a, r) THEN -4 ELSE -5

\* the neighbour chosen on a grid of spacing ulp (in ErrUnit), t above the
\* double below; t2 is the same distance from the even double below
round_on_grid(a, r, ulp, t2, t) ==
    IF 2 * t < ulp THEN [a |-> a, r |-> r - t]
    ELSE IF 2 * t > ulp THEN [a |-> a, r |-> r + ulp - t]
    ELSE IF t2 < ulp THEN [a |-> a, r |-> r - t]    \* a tie: the even neighbour
    ELSE [a |-> a, r |-> r + ulp - t]

\* (a * 2^57) modulo 2 * ulp, for ulp = 20 * 2^(k + 5)
exact_part_mod(a, k, ulp) ==
    (Pow2(k + 8) * (((a % 5) * Pow2Mod5(49 - k)) % 5)) % (2 * ulp)

round_from(a, r, ulp, t2) == round_on_grid(a, r, ulp, t2, t2 % ulp)

round_with_ulp(a, r, k, ulp) ==
    round_from(a, r, ulp, (exact_part_mod(a, k, ulp) + r) % (2 * ulp))

\* the spacing of the doubles in binade k is 2^(k - 52) = 20 * 2^(k + 5) ErrUnit
round_in_binade(a, r, k) == round_with_ulp(a, r, k, 20 * Pow2(k + 5))

\* the double nearest to the real a/20 + r * ErrUnit, ties to even
RoundToDouble(a, r) ==
    IF a = 0 /\ r = 0 THEN [a |-> 0, r |-> 0]
    ELSE round_in_binade(a, r, Binade(a, r))

\* score * weight, an int times a float
FloatMul(score, w) == RoundToDouble(score * w, score * WeightErr(w))

\* x + y of two floats
FloatAdd(x, y) == RoundToDouble(x.a + y.a, x.r + y.r)

\* RoundFloat with int(x) in place of round(x)
RoundFloat_truncated(x) == x.a \div 20

\* round(x) of a float: nearest integer, ties to even
RoundFloat(x) ==
    LET q == x.a \div 20
        m == x.a % 20
    IN  IF m < 10 THEN q
        ELSE IF m > 10 THEN q + 1
        ELSE IF x.r > 0 THEN q + 1
        ELSE IF x.r < 0 THEN q
        ELSE IF q % 2 = 0 THEN q ELSE q + 1

\* round(total / n) of ints: the quotient of two ints is the double nearest to
\* the rational, which is exact when the rational is a tie (x.5) and otherwise
\* far closer to the rational than the rational is to a tie
RoundDiv(total, n) ==
    LET q == total \div n
        m == total % n
    IN  IF 2 * m < n THEN q
        ELSE IF 2 * m > n THEN q + 1
        ELSE IF q % 2 = 0 THEN q ELSE q + 1

-----------------------------------------------------------------------------
(* HELPER FUNCTIONS *)

RECURSIVE SumSeq(_)
SumSeq(seq) == IF seq = <<>> THEN 0 ELSE Head(seq) + SumSeq(Tail(seq))

KeyError == [error |-> "KeyError"]

\* section_score with the average truncated (int(avg_score)) instead of rounded
section_score_truncated(section_data, answers_map) ==
    SumSeq([i \in 1..Len(section_data.questions) |->
               SCORE_MAP_get(answers_map[section_data.questions[i]])])
        \div Len(section_data.questions)

\* section_score giving a section without questions the default level's score
section_score_empty_as_default(section_data, answers_map) ==
    LET questions       == section_data.questions
        question_scores == [i \in 1..Len(questions) |->
                                SCORE_MAP_get(answers_map[questions[i]])]
    IN  IF Len(question_scores) > 0
        THEN RoundDiv(SumSeq(question_scores), Len(question_scores))
        ELSE 60

\* the loop body of compute_scores for one section: round(avg_score)
section_score(section_data, answers_map) ==
    LET questions       == section_data.questions
        question_scores == [i \in 1..Len(questions) |->
                                SCORE_MAP_get(answers_map[questions[i]])]
    IN  IF Len(question_scores) > 0
        THEN RoundDiv(SumSeq(question_scores), Len(question_scores))
        ELSE 0

\* sum(section_scores[s] * SECTIONS[s]["weight"] for s in section_scores), a float
RECURSIVE weighted_sum(_, _, _)
weighted_sum(r, section_scores, n) ==
    IF n = 0 THEN [a |-> 0, r |-> 0]
    ELSE FloatAdd(weighted_sum(r, section_scores, n - 1),
                  FloatMul(section_scores[n].score, SECTIONS(r)[n].weight))

\* the dict section_scores after the first n iterations of compute_scores' loop
RECURSIVE section_scores_upto(_, _, _)
section_scores_upto(r, answers_map, n) ==
    IF n = 0 THEN << >>
    ELSE Append(section_scores_upto(r, answers_map, n - 1),
                [section |-> SECTIONS(r)[n].name,
                 score   |-> section_score(SECTIONS(r)[n], answers_map)])

\* scores_result with the weights forgotten in the sum
scores_result_unweighted(r, section_scores) ==
    [section_scores |-> section_scores,
     overall |-> SumSeq([i \in 1..Len(section_scores) |-> section_scores[i].score])]

\* lines 212-216 of compute_scores: the overall score and the returned pair
scores_result(r, section_scores) ==
    [section_scores |-> section_scores,
     overall |-> RoundFloat(weighted_sum(r, section_scores, Len(section_scores)))]

\* compute_scores reading answers_map.get(q, "Defined") instead of answers_map[q]
compute_scores_get_default(r, answers_map) ==
    scores_result(r, section_scores_upto(r,
        [q \in Questions(r) |-> IF q \in DOMAIN answers_map THEN answers_map[q]
                                                            ELSE "Defined"],
        Len(SECTIONS(r))))

\* compute_scores(answers_map) over the catalogue of revision r; answers_map[q]
\* raises KeyError for a question without an entry
compute_scores(r, answers_map) ==
    IF \E q \in Questions(r) : q \notin DOMAIN answers_map
    THEN KeyError
    ELSE scores_result(r, section_scores_upto(r, answers_map, Len(SECTIONS(r))))

\* get_readiness_level with strict comparisons (score > 90, ...)
get_readiness_level_strict(score) ==
    IF score > 90 THEN <<"Optimised", "green">>
    ELSE IF score > 75 THEN <<"Managed", "blue">>
    ELSE IF score > 60 THEN <<"Defined", "yellow">>
    ELSE IF score > 40 THEN <<"Developing", "orange">>
    ELSE <<"Initial", "red">>

\* get_readiness_level(score): the level and its marker
get_readiness_level(score) ==
    IF score >= 90 THEN <<"Optimised", "green">>
    ELSE IF score >= 75 THEN <<"Managed", "blue">>
    ELSE IF score >= 60 THEN <<"Defined", "yellow">>
    ELSE IF score >= 40 THEN <<"Developing", "orange">>
    ELSE <<"Initial", "red">>

\* rec_actions with a final else branch that fills in a generic action
rec_actions_generic_else(section) ==
    CASE section = "Governance & Ownership" ->
             << "Establish a BCBS-239 steering committee",
                "Assign data owners for all CDEs",
                "Update governance policies to reference BCBS-239" >>
      [] section = "Data Quality & Controls" ->
             << "Implement automated DQ rules for CDEs",
                "Define and monitor DQ SLAs",
                "Establish exception management workflows" >>
      [] section = "Lineage & Traceability" ->
             << "Document end-to-end lineage for all CDEs",
                "Version control all transformation logic",
                "Enable drill-down capability in reports" >>
      [] section = "BCBS-239 Specific Controls" ->
             << "Create comprehensive CDE catalogue",
                "Validate aggregation rules across entities",
                "Implement independent validation checks" >>
      [] section = "Operational Resilience & Auditability" ->
             << "Develop incident response runbooks",
                "Enable complete audit trails",
                "Define recovery SLAs for critical flows" >>
      [] OTHER -> << "Review the controls of this section" >>

\* the if/elif chain of generate_recommendations that fills rec["actions"]
rec_actions(section) ==
    CASE section = "Governance & Ownership" ->
             << "Establish a BCBS-239 steering committee",
                "Assign data owners for all CDEs",
                "Update governance policies to reference BCBS-239" >>
      [] section = "Data Quality & Controls" ->
             << "Implement automated DQ rules for CDEs",
                "Define and monitor DQ SLAs",
                "Establish exception management workflows" >>
      [] section = "Lineage & Traceability" ->
             << "Document end-to-end lineage for all CDEs",
                "Version control all transformation logic",
                "Enable drill-down capability in reports" >>
      [] section = "BCBS-239 Specific Controls" ->
             << "Create comprehensive CDE catalogue",
                "Validate aggregation rules across entities",
                "Implement independent validation checks" >>
      [] section = "Operational Resilience & Auditability" ->
             << "Develop incident response runbooks",
                "Enable complete audit trails",
                "Define recovery SLAs for critical flows" >>
      [] OTHER -> << >>

\* is_gap with the threshold included
is_gap_inclusive(score) == score <= 70

\* the gap test of generate_recommendations
is_gap(score) == score < 70

\* rec["priority"]
rec_priority(score) == IF score < 50 THEN "High" ELSE "Medium"

\* generate_recommendations(section_scores): one pass over the dict's items
RECURSIVE generate_recommendations(_)
generate_recommendations(section_scores) ==
    IF section_scores = << >> THEN << >>
    ELSE LET item == Head(section_scores)
             rest == generate_recommendations(Tail(section_scores))
         IN  IF is_gap(item.score)
             THEN << [section  |-> item.section,
                      score    |-> item.score,
                      priority |-> rec_priority(item.score),
                      actions  |-> rec_actions(item.section)] >> \o rest
             ELSE rest

\* the row export_to_csv appends for one question
export_row(section_data, question, answers_map, section_scores) ==
    [Section        |-> section_data.name,
     Question       |-> question,
     Answer         |-> answers_map[question],
     Score          |-> SCORE_MAP_get(answers_map[question]),
     Section_Score  |-> dict_get(section_scores, section_data.name),
     Section_Weight |-> section_data.weight]

\* export_rows with the rows of the later sections put first
RECURSIVE export_rows_later_first(_, _, _, _)
export_rows_later_first(r, i, answers_map, section_scores) ==
    IF i > Len(SECTIONS(r)) THEN << >>
    ELSE export_rows_later_first(r, i + 1, answers_map, section_scores)
         \o [j \in 1..Len(SECTIONS(r)[i].questions) |->
                export_row(SECTIONS(r)[i], SECTIONS(r)[i].questions[j],
                           answers_map, section_scores)]

\* the rows export_to_csv appends for the sections from index i on
RECURSIVE export_rows(_, _, _, _)
export_rows(r, i, answers_map, section_scores) ==
    IF i > Len(SECTIONS(r)) THEN << >>
    ELSE [j \in 1..Len(SECTIONS(r)[i].questions) |->
             export_row(SECTIONS(r)[i], SECTIONS(r)[i].questions[j],
                        answers_map, section_scores)]
         \o export_rows(r, i + 1, answers_map, section_scores)

\* export_to_csv(answers_map, section_scores, overall_score): the DataFrame
export_to_csv(r, answers_map, section_scores, overall_score) ==
    [rows  |-> export_rows(r, 1, answers_map, section_scores),
     attrs |-> [overall_score |-> overall_score]]

\* export_to_json that writes the default answer set instead of answers_map
export_to_json_default_answers(r, answers_map, section_scores, overall_score) ==
    [assessment_metadata |-> [generated_at     |-> "utcnow",
                              app_version      |-> "2.0",
                              assessment_type  |-> "BCBS-239 Readiness"],
     scores          |-> [overall |-> overall_score, sections |-> section_scores],
     answers         |-> [q \in Questions(r) |-> "Defined"],
     section_weights |-> [i \in 1..Len(SECTIONS(r)) |->
                             [section |-> SECTIONS(r)[i].name,
                              weight  |-> SECTIONS(r)[i].weight]]]

\* export_to_json(answers_map, section_scores, overall_score); generated_at is
\* the wall clock of the call, which the model does not keep
export_to_json(r, answers_map, section_scores, overall_score) ==
    [assessment_metadata |-> [generated_at     |-> "utcnow",
                              app_version      |-> "2.0",
                              assessment_type  |-> "BCBS-239 Readiness"],
     scores          |-> [overall |-> overall_score, sections |-> section_scores],
     answers         |-> answers_map,
     section_weights |-> [i \in 1..Len(SECTIONS(r)) |->
                             [section |-> SECTIONS(r)[i].name,
                              weight  |-> SECTIONS(r)[i].weight]]]

\* the questions of the sections from index i on, in the order of SECTIONS;
\* every answers dict of the program is filled in this order
RECURSIVE question_order(_, _)
question_order(r, i) ==
    IF i > Len(SECTIONS(r)) THEN << >>
    ELSE SECTIONS(r)[i].questions \o question_order(r, i + 1)

\* the members json.dumps writes for the answers dict: "key": "value" pairs in
\* the dict's order
dict_items(order, d) ==
    IF order = << >> THEN << >>
    ELSE [i \in 1..Len(SelectSeq(order, LAMBDA q : q \in DOMAIN d)) |->
             << SelectSeq(order, LAMBDA q : q \in DOMAIN d)[i],
                d[SelectSeq(order, LAMBDA q : q \in DOMAIN d)[i]] >>]

\* the decimal digits json.dumps writes for a non-negative int
RECURSIVE int_repr(_)
int_repr(n) == IF n < 10 THEN << n >> ELSE Append(int_repr(n \div 10), n % 10)

\* json.dumps(json_data, indent=2): the text of the JSON download
json_dumps(r, json_data) ==
    [assessment_metadata |-> json_data.assessment_metadata,
     scores  |-> [overall  |-> int_repr(json_data.scores.overall),
                  sections |-> [i \in 1..Len(json_data.scores.sections) |->
                                   << json_data.scores.sections[i].section,
                                      int_repr(json_data.scores.sections[i].score) >>]],
     answers |-> dict_items(question_order(r, 1), json_data.answers),
     section_weights |-> [i \in 1..Len(json_data.section_weights) |->
                             << json_data.section_weights[i].section,
                                json_data.section_weights[i].weight >>]]

-----------------------------------------------------------------------------
(* SESSION STATE AND UI *)

\* the literal {} of Python
EmptyDict == [q \in {} |-> "Defined"]

\* the default answer set of init_session_state
default_answers(r) == [q \in Questions(r) |-> "Defined"]

\* init_session_state(): fills in the keys that are missing
init_session_state(r, k, s, a) ==
    [keys    |-> k \cup {"started", "answers", "show_guidance"},
     started |-> IF "started" \notin k THEN FALSE ELSE s,
     answers |-> IF "answers" \notin k THEN default_answers(r) ELSE a]

\* radio with index 0 as the fallback for a stored value that is no option
radio_fallback_first(q, a, w) ==
    IF q \in DOMAIN w THEN w[q]
    ELSE LET current_answer == IF q \in DOMAIN a THEN a[q] ELSE "Defined"
             index == IF current_answer \in Levels
                      THEN CHOOSE i \in 1..Len(OPTIONS) : OPTIONS[i] = current_answer
                      ELSE 1
         IN  OPTIONS[index]

\* the value st.radio returns for a question: the widget's state when the
\* session holds one for its key, else the option at the index computed from
\* the stored answer
radio(q, a, w) ==
    IF q \in DOMAIN w THEN w[q]
    ELSE LET current_answer == IF q \in DOMAIN a THEN a[q] ELSE "Defined"
             index == IF current_answer \in Levels
                      THEN CHOOSE i \in 1..Len(OPTIONS) : OPTIONS[i] = current_answer
                      ELSE 3
         IN  OPTIONS[index]

\* render_questionnaire without the assignment that stores new_answer
render_questionnaire_not_stored(r, a, w) == a

\* render_questionnaire(): st.session_state.answers after the loop over all questions
render_questionnaire(r, a, w) ==
    [q \in (DOMAIN a) \cup Questions(r) |->
        IF q \in Questions(r) THEN radio(q, a, w) ELSE a[q]]

\* the widget state after a completed run that rendered the questionnaire
rendered_widgets(r, a, w) == [q \in Questions(r) |-> radio(q, a, w)]

\* the widget state after a completed run that rendered the landing page:
\* Streamlit drops the state of widgets the run did not render
dropped_widgets == EmptyDict

\* render_results(section_scores, overall_score): what the results page shows
\* and offers for download
render_results(r, a, sc) ==
    [page            |-> "results",
     section_scores  |-> sc.section_scores,
     overall_score   |-> sc.overall,
     level           |-> get_readiness_level(sc.overall),
     recommendations |-> generate_recommendations(sc.section_scores),
     csv_data        |-> export_to_csv(r, a, sc.section_scores, sc.overall),
     json_data       |-> export_to_json(r, a, sc.section_scores, sc.overall),
     json_download   |-> json_dumps(r, export_to_json(r, a, sc.section_scores, sc.overall))]

\* the part of main() after render_questionnaire(): compute_scores and the
\* results page, for the answers the questionnaire left
show_results(after, sc) ==
    /\ answers' = after
    /\ shown' = IF "error" \in DOMAIN sc
                THEN [page |-> "error", error |-> sc.error]
                ELSE render_results(rev, after, sc)

\* the score computation main() makes after render_questionnaire()
scores_shown(after) == compute_scores(rev, after)

\* show_assessment with the scores computed before the questionnaire ran
show_assessment_scores_first(after) == show_results(after, compute_scores(rev, answers))

\* the started branch of main(): questionnaire, scores, results
show_assessment(after) == show_results(after, scores_shown(after))

\* main() after init_session_state() returned session state ss
run_page(ss, w) ==
    /\ keys' = ss.keys
    /\ started' = ss.started
    /\ IF ~ ss.started
       THEN /\ answers' = ss.answers
            /\ widgets' = dropped_widgets
            /\ shown' = [page |-> "landing"]
       ELSE /\ widgets' = rendered_widgets(rev, ss.answers, w)
            /\ show_assessment(render_questionnaire(rev, ss.answers, w))

\* one run of main() in which no button is pressed, from session state (k, s, a)
\* and widget state w
main(k, s, a, w) == run_page(init_session_state(rev, k, s, a), w)

\* the browser sessions the server serves
Sessions == {1, 2}

\* the identities of the dict objects that can be alive at once: for each
\* session the dict its session state refers to and the one a snapshot of
\* its last page refers to
ObjIds == 1..(2 * Cardinality(Sessions))

\* the server before any script run: no session state, nothing displayed
InitServer ==
    [heap          |-> [o \in ObjIds |-> EmptyDict],
     session_state |-> [s \in Sessions |-> EmptyDict],
     widget_state  |-> [s \in Sessions |-> EmptyDict],
     page          |-> [s \in Sessions |-> [page |-> "none"]],
     actor         |-> 0]

\* nothing is displayed yet in a new session
Init ==
    /\ rev \in Revisions
    /\ keys = {}
    /\ started = FALSE
    /\ answers = EmptyDict
    /\ widgets = EmptyDict
    /\ shown = [page |-> "none"]
    /\ nsel = 0
    /\ probe = [fn |-> "none"]
    /\ server = InitServer

\* the browser opens the app: the first run of main()
Load ==
    /\ shown.page = "none"
    /\ main(keys, started, answers, widgets)
    /\ UNCHANGED <<rev, nsel, probe, server>>

\* "Start Assessment" on the landing page: started = True, st.rerun()
Start ==
    /\ shown.page = "landing"
    /\ main(keys, TRUE, answers, widgets)
    /\ UNCHANGED <<rev, nsel, probe, server>>

\* the user picks another option of one question's radio: the widget state
\* changes and the script reruns
SelectAnswer(q, level) ==
    /\ shown.page = "results"
    /\ nsel < MaxSelections
    /\ q \in Questions(rev)
    /\ level \in Range(OPTIONS)
    /\ level # widgets[q]
    /\ main(keys, started, answers, [widgets EXCEPT ![q] = level])
    /\ nsel' = nsel + 1
    /\ UNCHANGED <<rev, probe, server>>

\* the assignment "Reset Assessment" makes to st.session_state.answers
reset_answers == EmptyDict

\* "Reset Assessment" in the sidebar: started = False, answers = {}, st.rerun()
Reset ==
    /\ shown.page = "results"
    /\ started
    /\ main(keys, FALSE, reset_answers, widgets)
    /\ UNCHANGED <<rev, nsel, probe, server>>

Next ==
    \/ Load
    \/ Start
    \/ \E q \in Questions(rev), level \in Levels : SelectAnswer(q, level)
    \/ Reset

Spec == Init /\ [][Next]_vars

-----------------------------------------------------------------------------
(* TWO SESSIONS ON ONE SERVER *)
(* st.session_state is a dict per session; session_state[s].answers is a    *)
(* reference to a dict object of the heap, and the "answers" member of the  *)
(* dict export_to_json returns is a reference to the same object.           *)

\* the objects referred to by a session state or by the snapshot on a page
Refs(sv) ==
    {sv.session_state[s].answers :
        s \in {t \in Sessions : "answers" \in DOMAIN sv.session_state[t]}}
    \cup {sv.page[s].json_data.answers :
             s \in {t \in Sessions : sv.page[t].page = "results"}}

\* new_dict handing out one process-wide dict to every caller
new_dict_shared(sv) == 1

\* the identity of a newly created dict ({}): one that nothing refers to
new_dict(sv) ==
    CHOOSE o \in ObjIds \ Refs(sv) : \A other \in ObjIds \ Refs(sv) : o <= other

\* Python reclaims a dict once nothing refers to it: here, once no session
\* state and no snapshot of the state before or after the run refers to it
collect_garbage(before, after) ==
    [after EXCEPT !.heap = [o \in ObjIds |->
        IF o \in Refs(before) \cup Refs(after) THEN after.heap[o] ELSE EmptyDict]]

\* what a started run shows: render_results, whose json_data["answers"] is
\* the dict object passed in, not a copy
results_page(ref, after, sc) ==
    IF "error" \in DOMAIN sc
    THEN [page |-> "error", error |-> sc.error]
    ELSE [render_results(rev, after, sc) EXCEPT !.json_data.answers = ref]

\* the started branch of main() in session sid: the questionnaire writes into
\* the dict object ref, then scores and results
started_run(sv, sid, ss, ref, before, w, after) ==
    [heap          |-> [sv.heap EXCEPT ![ref] = after],
     session_state |-> [sv.session_state EXCEPT ![sid] = ss],
     widget_state  |-> [sv.widget_state EXCEPT ![sid] = rendered_widgets(rev, before, w)],
     page          |-> [sv.page EXCEPT ![sid] =
                           results_page(ref, after, compute_scores(rev, after))],
     actor         |-> sid]

\* the landing page branch of main() in session sid
landing_run(sv, sid, ss, ref, before) ==
    [heap          |-> [sv.heap EXCEPT ![ref] = before],
     session_state |-> [sv.session_state EXCEPT ![sid] = ss],
     widget_state  |-> [sv.widget_state EXCEPT ![sid] = dropped_widgets],
     page          |-> [sv.page EXCEPT ![sid] = [page |-> "landing"]],
     actor         |-> sid]

\* main() in session sid after init_session_state() returned init, the
\* session's answers being the dict object ref
session_page(sv, sid, init, ref, w) ==
    IF ~ init.started
    THEN landing_run(sv, sid,
                     [started |-> FALSE, answers |-> ref, show_guidance |-> EmptyDict],
                     ref, init.answers)
    ELSE started_run(sv, sid,
                     [started |-> TRUE, answers |-> ref, show_guidance |-> EmptyDict],
                     ref, init.answers, w, render_questionnaire(rev, init.answers, w))

\* one run of main() in session sid whose session state is the dict ss:
\* init_session_state() creates the answers dict when the key is missing
session_main(sv, sid, ss, w) ==
    session_page(sv, sid,
                 init_session_state(rev, DOMAIN ss,
                     IF "started" \in DOMAIN ss THEN ss.started ELSE FALSE,
                     IF "answers" \in DOMAIN ss THEN sv.heap[ss.answers] ELSE EmptyDict),
                 IF "answers" \in DOMAIN ss THEN ss.answers ELSE new_dict(sv),
                 w)

\* the server after a script run
ServerRun(after) ==
    /\ server' = collect_garbage(server, after)
    /\ UNCHANGED <<rev, keys, started, answers, widgets, shown, probe>>

\* session s opens the app
SessionLoad(s) ==
    /\ server.page[s].page = "none"
    /\ ServerRun(session_main(server, s, server.session_state[s], server.widget_state[s]))
    /\ UNCHANGED nsel

\* "Start Assessment" in session s
SessionStart(s) ==
    /\ server.page[s].page = "landing"
    /\ ServerRun(session_main(server, s,
                              [server.session_state[s] EXCEPT !.started = TRUE],
                              server.widget_state[s]))
    /\ UNCHANGED nsel

\* a radio selection in session s
SessionSelectAnswer(s, q, level) ==
    /\ server.page[s].page = "results"
    /\ nsel < MaxSelections
    /\ level # server.widget_state[s][q]
    /\ ServerRun(session_main(server, s, server.session_state[s],
                              [server.widget_state[s] EXCEPT ![q] = level]))
    /\ nsel' = nsel + 1

\* the run "Reset Assessment" triggers in session s, the new dict being ref
session_reset(sv, s, ref) ==
    session_main([sv EXCEPT !.heap[ref] = reset_answers], s,
                 [sv.session_state[s] EXCEPT !.started = FALSE, !.answers = ref],
                 sv.widget_state[s])

\* "Reset Assessment" in session s
SessionReset(s) ==
    /\ server.page[s].page = "results"
    /\ server.session_state[s].started
    /\ ServerRun(session_reset(server, s, new_dict(server)))
    /\ UNCHANGED nsel

\* the radios the two sessions use: the first question of every section
FirstQuestions(r) ==
    {SECTIONS(r)[i].questions[1] : i \in 1..Len(SECTIONS(r))}

\* the options they pick: the lowest and the highest
EndLevels == {OPTIONS[1], OPTIONS[Len(OPTIONS)]}

NextSessions ==
    \E s \in Sessions :
        \/ SessionLoad(s)
        \/ SessionStart(s)
        \/ \E q \in FirstQuestions(rev), level \in EndLevels : SessionSelectAnswer(s, q, level)
        \/ SessionReset(s)

SpecSessions == Init /\ [][NextSessions]_vars

-----------------------------------------------------------------------------
(* DIRECT CALLS OF THE PURE HELPERS *)
(* A helper is called once, from the initial state (probe.fn = "none"), on   *)
(* an input drawn from a set; probe records the input and the value returned.*)

\* the questions of section i
SectionQuestions(r, i) == Range(SECTIONS(r)[i].questions)

\* complete answer stores: every combination of levels for the questions of
\* one section, all other questions sharing one level
FocusStores(r) ==
    UNION { { [q \in Questions(r) |-> IF q \in SectionQuestions(r, i) THEN f[q] ELSE base] :
                f \in [SectionQuestions(r, i) -> Levels] } :
            i \in 1..Len(SECTIONS(r)), base \in Levels }

\* compute_scores(answers_map) on a complete store
CallComputeScores(answers_map) ==
    /\ probe' = [fn |-> "compute_scores", answers_map |-> answers_map,
                 result |-> compute_scores(rev, answers_map)]
    /\ UNCHANGED <<rev, keys, started, answers, widgets, shown, nsel, server>>

NextScore ==
    /\ probe.fn = "none"
    /\ \E answers_map \in FocusStores(rev) : CallComputeScores(answers_map)

SpecScore == Init /\ [][NextScore]_vars

\* get_readiness_level(score)
CallReadinessLevel(score) ==
    /\ probe' = [fn |-> "get_readiness_level", score |-> score,
                 result |-> get_readiness_level(score)]
    /\ UNCHANGED <<rev, keys, started, answers, widgets, shown, nsel, server>>

NextLevel ==
    /\ probe.fn = "none"
    /\ \E score \in 0..100 : CallReadinessLevel(score)

SpecLevel == Init /\ [][NextLevel]_vars

\* section_scores dicts in catalogue order: one section with any score in
\* 0..100, every other section either a High gap (49) or no gap (70)
ScoreDicts(r) ==
    { [i \in 1..Len(SECTIONS(r)) |->
          [section |-> SECTIONS(r)[i].name,
           score   |-> IF i = free THEN v ELSE rest[i]]] :
      free \in 1..Len(SECTIONS(r)), v \in 0..100,
      rest \in [1..Len(SECTIONS(r)) -> {49, 70}] }

\* generate_recommendations(section_scores)
CallRecommendations(section_scores) ==
    /\ probe' = [fn |-> "generate_recommendations", section_scores |-> section_scores,
                 result |-> generate_recommendations(section_scores)]
    /\ UNCHANGED <<rev, keys, started, answers, widgets, shown, nsel, server>>

NextRec ==
    /\ probe.fn = "none"
    /\ \E section_scores \in ScoreDicts(rev) : CallRecommendations(section_scores)

SpecRec == Init /\ [][NextRec]_vars

\* answer stores that lack the entries of one or two questions, or of all:
\* the other questions share one level
PartialStores(r) ==
    { [q \in Questions(r) \ missing |-> base] :
        missing \in {{q1, q2} : q1 \in Questions(r), q2 \in Questions(r)}
                        \cup {Questions(r)},
        base \in Levels }

\* compute_scores(answers_map) on a store with missing entries
NextMissing ==
    /\ probe.fn = "none"
    /\ \E answers_map \in PartialStores(rev) : CallComputeScores(answers_map)

SpecMissing == Init /\ [][NextMissing]_vars

\* values that are not among the options of any question
OutOfSet == {"Expert", "defined", ""}

\* complete stores in which one question holds a value outside its options
\* and the other questions share one level
InvalidStores(r) ==
    { [q \in Questions(r) |-> IF q = bad THEN value ELSE base] :
        bad \in Questions(r), value \in OutOfSet, base \in Levels }

\* render_questionnaire() in a session whose store is a and that has no widget
\* state yet: the store after the loop
CallRenderQuestionnaire(a) ==
    /\ probe' = [fn |-> "render_questionnaire", answers |-> a,
                 result |-> render_questionnaire(rev, a, EmptyDict)]
    /\ UNCHANGED <<rev, keys, started, answers, widgets, shown, nsel, server>>

\* the questionnaire loop, or compute_scores, on a store with an out-of-set value
NextInvalid ==
    /\ probe.fn = "none"
    /\ \E a \in InvalidStores(rev) :
          \/ CallRenderQuestionnaire(a)
          \/ CallComputeScores(a)

SpecInvalid == Init /\ [][NextInvalid]_vars

\* complete stores in which at most one question differs from the level
\* all others share
NearUniformStores(r) ==
    { [q \in Questions(r) |-> IF q = other THEN level ELSE base] :
        other \in Questions(r), level \in Levels, base \in Levels }

\* a process whose SECTIONS dict is a shipped or an edited catalogue
InitCatalogue ==
    /\ rev \in Revisions \cup EditedCatalogues
    /\ keys = {}
    /\ started = FALSE
    /\ answers = EmptyDict
    /\ widgets = EmptyDict
    /\ shown = [page |-> "none"]
    /\ nsel = 0
    /\ probe = [fn |-> "none"]
    /\ server = InitServer

\* compute_scores(answers_map) over that catalogue
NextCatalogue ==
    /\ probe.fn = "none"
    /\ \E answers_map \in NearUniformStores(rev) : CallComputeScores(answers_map)

SpecCatalogue == InitCatalogue /\ [][NextCatalogue]_vars

-----------------------------------------------------------------------------
(* PROPERTIES *)

Abs(x) == IF x < 0 THEN -x ELSE x

\* the numeric score of a maturity level
LevelScore(level) ==
    CASE level = "Initial"    -> 20
      [] level = "Developing" -> 40
      [] level = "Defined"    -> 60
      [] level = "Managed"    -> 80
      [] level = "Optimised"  -> 100

\* the sum of the numeric scores of a section's answers
SectionTotal(section_data, answers_map) ==
    SumSeq([j \in 1..Len(section_data.questions) |->
               LevelScore(answers_map[section_data.questions[j]])])

\* item is the entry of section_data and its score is an integer nearest to
\* the mean of the section's own answers
IsRoundedMean(item, section_data, answers_map) ==
    /\ item.section = section_data.name
    /\ 2 * Abs(Len(section_data.questions) * item.score
               - SectionTotal(section_data, answers_map))
         <= Len(section_data.questions)

\* C1: for every complete answer store compute_scores returns, for each
\* section, the mean of the numeric scores of that section's own answers
\* rounded to the nearest integer; the answers of other sections do not enter.
C1_SectionScoreIsRoundedMean ==
    probe.fn = "compute_scores" =>
        /\ Len(probe.result.section_scores) = Len(SECTIONS(rev))
        /\ \A i \in 1..Len(SECTIONS(rev)) :
              IsRoundedMean(probe.result.section_scores[i], SECTIONS(rev)[i],
                            probe.answers_map)

\* a store whose first section has a mean that is no integer (two answers
\* Defined, one Managed: 66.67, scored 67) while other sections score differently
C1_Witness ==
    /\ probe.fn = "compute_scores"
    /\ SectionTotal(SECTIONS(rev)[1], probe.answers_map) = 200
    /\ probe.result.section_scores[1].score = 67
    /\ probe.result.section_scores[2].score = 100

\* twenty times the weighted sum of the section scores (weights in twentieths)
WeightedTotal(r, section_scores) ==
    SumSeq([i \in 1..Len(section_scores) |->
               section_scores[i].score * SECTIONS(r)[i].weight])

\* C2: the overall score is the sum over all sections of section score times
\* section weight, rounded to the nearest integer.
C2_OverallIsRoundedWeightedSum ==
    probe.fn = "compute_scores" =>
        2 * Abs(20 * probe.result.overall
                - WeightedTotal(rev, probe.result.section_scores)) <= 20

\* a store whose weighted sum lies above the half: it is rounded up
C2_Witness ==
    /\ probe.fn = "compute_scores"
    /\ WeightedTotal(rev, probe.result.section_scores) % 20 > 10
    /\ 20 * probe.result.overall > WeightedTotal(rev, probe.result.section_scores)

\* C3: in every state reachable by start, answer selection and reset, every
\* section score and the overall score the program computes from the answer
\* store are integers in 0..100 (scores are computed exactly when an
\* assessment is started, and the computation never fails).
C3_ScoresInRange ==
    /\ shown.page \in {"none", "landing", "results"}
    /\ started => shown.page = "results"
    /\ shown.page = "results" =>
          /\ shown.overall_score \in 0..100
          /\ Len(shown.section_scores) = Len(SECTIONS(rev))
          /\ \A i \in 1..Len(shown.section_scores) :
                shown.section_scores[i].score \in 0..100

\* scores shown after an answer was changed
C3_Witness ==
    /\ shown.page = "results"
    /\ nsel >= 1
    /\ shown.overall_score # 60
    /\ \E i \in 1..Len(shown.section_scores) : shown.section_scores[i].score # 60

\* the place of a maturity level in the scale
LevelRank(level) ==
    CASE level = "Initial"    -> 1
      [] level = "Developing" -> 2
      [] level = "Defined"    -> 3
      [] level = "Managed"    -> 4
      [] level = "Optimised"  -> 5

\* the scores of store raised, compared with the scores shown for section i
NotLower(raised, i) ==
    /\ raised.section_scores[i].score >= shown.section_scores[i].score
    /\ raised.overall >= shown.overall_score

\* C4: replacing one question's answer by a higher maturity level, all other
\* answers unchanged, never decreases the score of the question's section nor
\* the overall score.
C4_RaisingNeverLowers ==
    shown.page = "results" =>
        \A q \in Questions(rev), level \in Levels :
            LevelRank(level) > LevelRank(answers[q]) =>
                NotLower(compute_scores(rev, [answers EXCEPT ![q] = level]),
                         SectionOf(rev, q))

\* the raise of q to level lifts its section's score and leaves the overall score
RaiseAbsorbed(raised, i) ==
    /\ raised.section_scores[i].score > shown.section_scores[i].score
    /\ raised.overall = shown.overall_score

\* a store, reached by a selection, in which some raise lifts the section
\* score while rounding keeps the overall score where it was
C4_Witness ==
    /\ shown.page = "results"
    /\ nsel >= 1
    /\ \E q \in Questions(rev), level \in Levels :
          /\ LevelRank(level) > LevelRank(answers[q])
          /\ RaiseAbsorbed(compute_scores(rev, [answers EXCEPT ![q] = level]),
                           SectionOf(rev, q))

\* the lower threshold of a readiness tier
TierThreshold(label) ==
    CASE label = "Optimised"  -> 90
      [] label = "Managed"    -> 75
      [] label = "Defined"    -> 60
      [] label = "Developing" -> 40
      [] label = "Initial"    -> 0

\* the tier the threshold table gives a score
TierOf(score) ==
    CASE score >= 90                -> "Optimised"
      [] score >= 75 /\ score <= 89 -> "Managed"
      [] score >= 60 /\ score <= 74 -> "Defined"
      [] score >= 40 /\ score <= 59 -> "Developing"
      [] score >= 0  /\ score <= 39 -> "Initial"

\* C5: get_readiness_level classifies every integer score in 0..100 into
\* exactly one tier by the thresholds 90, 75, 60, 40 (lower bounds inclusive);
\* the tier's lower threshold is at most the score, and no lower score gets a
\* higher tier.
C5_ThresholdClassification ==
    probe.fn = "get_readiness_level" =>
        /\ probe.result[1] \in Levels
        /\ probe.result[1] = TierOf(probe.score)
        /\ TierThreshold(probe.result[1]) <= probe.score
        /\ \A lower \in 0..probe.score :
              LevelRank(get_readiness_level(lower)[1]) <= LevelRank(probe.result[1])

\* the score exactly at the highest threshold
C5_Witness ==
    /\ probe.fn = "get_readiness_level"
    /\ probe.score = 90
    /\ probe.result[1] = "Optimised"

\* the recommendations made for a section name
RecsFor(recs, name) == {j \in 1..Len(recs) : recs[j].section = name}

\* the place of a section name in a section_scores dict
PlaceOf(section_scores, name) ==
    CHOOSE i \in 1..Len(section_scores) : section_scores[i].section = name

\* recommendation rec is the one of item: its score, and priority High below 50
IsRecOf(rec, item) ==
    /\ rec.section = item.section
    /\ rec.score = item.score
    /\ rec.priority = IF item.score < 50 THEN "High" ELSE "Medium"

\* C6: generate_recommendations returns, in section order, exactly one
\* recommendation for each section scoring strictly below 70 and none for a
\* section scoring 70 or more, each with the section's score and priority High
\* below 50, else Medium; the result is empty exactly when every section
\* scores at least 70.
C6_RecommendationsBelow70 ==
    probe.fn = "generate_recommendations" =>
        /\ \A i \in 1..Len(probe.section_scores) :
              /\ probe.section_scores[i].section = SECTIONS(rev)[i].name
              /\ Cardinality(RecsFor(probe.result, probe.section_scores[i].section))
                    = IF probe.section_scores[i].score < 70 THEN 1 ELSE 0
        /\ \A j \in 1..Len(probe.result) :
              \E i \in 1..Len(probe.section_scores) :
                  IsRecOf(probe.result[j], probe.section_scores[i])
        /\ \A j1, j2 \in 1..Len(probe.result) :
              j1 < j2 => PlaceOf(probe.section_scores, probe.result[j1].section)
                            < PlaceOf(probe.section_scores, probe.result[j2].section)
        /\ (probe.result = << >>) <=>
              \A i \in 1..Len(probe.section_scores) : probe.section_scores[i].score >= 70

\* sections scoring 69, 70 and 49 together: Medium, none, High
C6_Witness ==
    /\ probe.fn = "generate_recommendations"
    /\ \E i \in 1..Len(probe.section_scores) : probe.section_scores[i].score = 70
    /\ \E j \in 1..Len(probe.result) :
          probe.result[j].score = 69 /\ probe.result[j].priority = "Medium"
    /\ \E j \in 1..Len(probe.result) :
          probe.result[j].score = 49 /\ probe.result[j].priority = "High"

\* the five section names of the action table, each with the first action of its list
KnownSections ==
    { "Governance & Ownership", "Data Quality & Controls", "Lineage & Traceability",
      "BCBS-239 Specific Controls", "Operational Resilience & Auditability" }

FirstAction(section) ==
    CASE section = "Governance & Ownership"     -> "Establish a BCBS-239 steering committee"
      [] section = "Data Quality & Controls"    -> "Implement automated DQ rules for CDEs"
      [] section = "Lineage & Traceability"     -> "Document end-to-end lineage for all CDEs"
      [] section = "BCBS-239 Specific Controls" -> "Create comprehensive CDE catalogue"
      [] section = "Operational Resilience & Auditability" ->
             "Develop incident response runbooks"

\* C7: a section that is not in the action table and scores below 70 still
\* gets its recommendation, with the right score and priority and an empty
\* action list; each of the five known sections gets its own list of exactly
\* three actions.
C7_UnknownSectionHasNoActions ==
    probe.fn = "generate_recommendations" =>
        /\ \A i \in 1..Len(probe.section_scores) :
              (probe.section_scores[i].section \notin KnownSections
                  /\ probe.section_scores[i].score < 70) =>
                  \E j \in 1..Len(probe.result) :
                      /\ IsRecOf(probe.result[j], probe.section_scores[i])
                      /\ probe.result[j].actions = << >>
        /\ \A j \in 1..Len(probe.result) :
              IF probe.result[j].section \in KnownSections
              THEN /\ Len(probe.result[j].actions) = 3
                   /\ probe.result[j].actions[1] = FirstAction(probe.result[j].section)
              ELSE probe.result[j].actions = << >>
        /\ \A j1, j2 \in 1..Len(probe.result) :
              (j1 # j2 /\ probe.result[j1].section \in KnownSections)
                  => probe.result[j1].actions # probe.result[j2].actions

\* the section added by src/app.py scores 49 next to a known section with a gap
C7_Witness ==
    /\ probe.fn = "generate_recommendations"
    /\ \E j \in 1..Len(probe.result) :
          /\ probe.result[j].section = "Data Timeliness, SLA & Feed Controls"
          /\ probe.result[j].score = 49
          /\ probe.result[j].priority = "High"
          /\ probe.result[j].actions = << >>
    /\ \E j \in 1..Len(probe.result) :
          /\ probe.result[j].section = "Lineage & Traceability"
          /\ Len(probe.result[j].actions) = 3

\* the int a sequence of decimal digits denotes
RECURSIVE ParseInt(_)
ParseInt(digits) ==
    IF digits = << >> THEN 0
    ELSE ParseInt(SubSeq(digits, 1, Len(digits) - 1)) * 10 + digits[Len(digits)]

\* the mapping a sequence of key/value members denotes (the last member of a key counts)
ParseObject(members) ==
    [key \in {members[i][1] : i \in 1..Len(members)} |->
        members[CHOOSE i \in 1..Len(members) :
                    /\ members[i][1] = key
                    /\ \A j \in (i + 1)..Len(members) : members[j][1] # key][2]]

\* the scores compute_scores gives for the answers of a JSON download
Recomputed(download) == compute_scores(rev, ParseObject(download.answers))

\* the recomputed scores are exactly the ones the download records
SameScores(download, recomputed) ==
    /\ "error" \notin DOMAIN recomputed
    /\ recomputed.overall = ParseInt(download.scores.overall)
    /\ Len(download.scores.sections) = Len(SECTIONS(rev))
    /\ \A i \in 1..Len(SECTIONS(rev)) :
          /\ download.scores.sections[i][1] = SECTIONS(rev)[i].name
          /\ dict_get(recomputed.section_scores, SECTIONS(rev)[i].name)
                = ParseInt(download.scores.sections[i][2])

\* C8: loading the answers of the JSON export as the answer store and
\* recomputing with compute_scores gives exactly the overall score and every
\* section score the export records.
C8_ExportRoundTrip ==
    shown.page = "results" =>
        SameScores(shown.json_download, Recomputed(shown.json_download))

\* an export after a selection that moved the overall score to a two-digit
\* value other than the default 60, and a section score away from 60
C8_Witness ==
    /\ shown.page = "results"
    /\ nsel > 0
    /\ ParseInt(shown.json_download.scores.overall) # 60
    /\ Recomputed(shown.json_download).overall # 60
    /\ \E i \in 1..Len(SECTIONS(rev)) :
          ParseInt(shown.json_download.scores.sections[i][2]) > 60

\* the number of questions in the sections before section i
RECURSIVE RowsBefore(_)
RowsBefore(i) ==
    IF i = 1 THEN 0 ELSE RowsBefore(i - 1) + Len(SECTIONS(rev)[i - 1].questions)

\* C9: the CSV export has exactly one row per catalogue question, in section
\* order and then question order; each row carries the stored answer of its
\* question, that answer's score, and the score and weight of its own section.
C9_CsvRowsFollowCatalogue ==
    shown.page = "results" =>
        /\ Len(shown.csv_data.rows) = Cardinality(Questions(rev))
        /\ Len(shown.csv_data.rows) = RowsBefore(Len(SECTIONS(rev)) + 1)
        /\ \A i \in 1..Len(SECTIONS(rev)) :
              \A j \in 1..Len(SECTIONS(rev)[i].questions) :
                  /\ shown.csv_data.rows[RowsBefore(i) + j].Section = SECTIONS(rev)[i].name
                  /\ shown.csv_data.rows[RowsBefore(i) + j].Question
                        = SECTIONS(rev)[i].questions[j]
                  /\ shown.csv_data.rows[RowsBefore(i) + j].Answer
                        = answers[SECTIONS(rev)[i].questions[j]]
                  /\ shown.csv_data.rows[RowsBefore(i) + j].Score
                        = LevelScore(answers[SECTIONS(rev)[i].questions[j]])
                  /\ shown.csv_data.rows[RowsBefore(i) + j].Section_Score
                        = dict_get(shown.section_scores, SECTIONS(rev)[i].name)
                  /\ shown.csv_data.rows[RowsBefore(i) + j].Section_Weight
                        = SECTIONS(rev)[i].weight

\* an export whose last row holds a selected answer
C9_Witness ==
    /\ shown.page = "results"
    /\ Len(shown.csv_data.rows) = Cardinality(Questions(rev))
    /\ shown.csv_data.rows[Len(shown.csv_data.rows)].Answer = "Optimised"
    /\ shown.csv_data.rows[Len(shown.csv_data.rows)].Score = 100
    /\ shown.csv_data.rows[Len(shown.csv_data.rows)].Section_Score > 60

\* C10: in the state right after Reset (started goes from True to False), and
\* in the state right after a start (started goes from False to True), every
\* catalogue question is mapped to "Defined".
C10_ResetRedefaults ==
    [][ /\ (started /\ ~ started') => answers' = [q \in Questions(rev) |-> "Defined"]
        /\ (~ started /\ started') => answers' = [q \in Questions(rev) |-> "Defined"]
      ]_vars

\* C11: once init_session_state has created the answer store, it has an
\* entry for every question of the catalogue in every state reached afterwards.
C11_StoreNeverPartiallyMissing ==
    "answers" \in keys => DOMAIN answers = Questions(rev)

\* C13: when at least one catalogue question has no entry in the store,
\* compute_scores ends in a missing-key error and returns neither section
\* scores nor an overall score; the missing answer is not scored by a default.
C13_MissingAnswerFails ==
    (probe.fn = "compute_scores"
        /\ \E q \in Questions(rev) : q \notin DOMAIN probe.answers_map) =>
            /\ DOMAIN probe.result = {"error"}
            /\ probe.result.error = "KeyError"

\* a store that lacks exactly one entry, all others answered
C13_Witness ==
    /\ probe.fn = "compute_scores"
    /\ Cardinality(Questions(rev) \ DOMAIN probe.answers_map) = 1
    /\ Cardinality(DOMAIN probe.answers_map) = Cardinality(Questions(rev)) - 1
    /\ probe.result.error = "KeyError"

ValueScore(value) == IF value \in Levels THEN LevelScore(value) ELSE 0

HasEmptySection(r) == \E i \in 1..Len(SECTIONS(r)) : SECTIONS(r)[i].questions = << >>

\* C14: scoring a catalogue that has a section without questions ends in a
\* ConfigurationError, and no score is produced for the empty section.
C14_EmptySectionFails ==
    (probe.fn = "compute_scores" /\ HasEmptySection(rev)) =>
        /\ DOMAIN probe.result = {"error"}
        /\ probe.result.error = "ConfigurationError"

\* C14 as amended: scoring a catalogue that has a section without questions
\* raises no error; the empty section scores 0, every other section the
\* rounded mean of its answers, and the overall score is the rounded weighted
\* sum in which the empty section counts 0.
C14_EmptySectionScoresZero ==
    (probe.fn = "compute_scores" /\ HasEmptySection(rev)) =>
        /\ DOMAIN probe.result = {"section_scores", "overall"}
        /\ Len(probe.result.section_scores) = Len(SECTIONS(rev))
        /\ \A i \in 1..Len(SECTIONS(rev)) :
              IF SECTIONS(rev)[i].questions = << >>
              THEN probe.result.section_scores[i] =
                       [section |-> SECTIONS(rev)[i].name, score |-> 0]
              ELSE IsRoundedMean(probe.result.section_scores[i], SECTIONS(rev)[i],
                                 probe.answers_map)
        /\ 2 * Abs(20 * probe.result.overall
                   - WeightedTotal(rev, probe.result.section_scores)) <= 20

\* all answers "Optimised" and one section of weight 0.20 without questions:
\* that section scores 0 and the overall score is 80
C14_Witness ==
    /\ probe.fn = "compute_scores"
    /\ HasEmptySection(rev)
    /\ \A q \in Questions(rev) : probe.answers_map[q] = "Optimised"
    /\ \E i \in 1..Len(SECTIONS(rev)) :
          /\ SECTIONS(rev)[i].questions = << >>
          /\ probe.result.section_scores[i].score = 0
    /\ probe.result.overall = 80

\* twenty times the sum of the section weights
WeightSum(r) == SumSeq([i \in 1..Len(SECTIONS(r)) |-> SECTIONS(r)[i].weight])

\* C15: the weights of every shipped catalogue sum to 1.0, and over a
\* catalogue whose weights do not sum to 1.0 no overall score is computed:
\* the catalogue fails to load.
C15_WeightsSumToOneOrFail ==
    /\ \A r \in Revisions : WeightSum(r) = 20
    /\ (probe.fn = "compute_scores" /\ WeightSum(rev) # 20) =>
          "overall" \notin DOMAIN probe.result

\* C15 as amended: the weights of every shipped catalogue sum to 1.0; the
\* program does not check the sum, and over a catalogue whose weights do not
\* sum to 1.0 compute_scores returns the rounded weighted sum all the same.
C15_ShippedWeightsSumToOne ==
    /\ \A r \in Revisions : WeightSum(r) = 20
    /\ (probe.fn = "compute_scores" /\ WeightSum(rev) # 20) =>
          /\ DOMAIN probe.result = {"section_scores", "overall"}
          /\ 2 * Abs(20 * probe.result.overall
                     - WeightedTotal(rev, probe.result.section_scores)) <= 20

\* weights that sum to more than 1.0 give an overall score above 100
C15_Witness ==
    /\ probe.fn = "compute_scores"
    /\ WeightSum(rev) > 20
    /\ probe.result.overall > 100

\* page shows exactly what is derived from scores sc of the store a
ShowsResultsOf(page, a, sc) ==
    /\ "error" \notin DOMAIN sc
    /\ page.section_scores = sc.section_scores
    /\ page.overall_score = sc.overall
    /\ page.level = get_readiness_level(sc.overall)
    /\ page.recommendations = generate_recommendations(sc.section_scores)
    /\ page.csv_data = export_to_csv(rev, a, sc.section_scores, sc.overall)
    /\ page.json_data = export_to_json(rev, a, sc.section_scores, sc.overall)

\* C17: in a started assessment the answer store holds the latest selection
\* of every radio, and the section scores, overall score, readiness label,
\* recommendations and exports on the page are exactly those computed from
\* that store; nothing derived from an earlier store is shown.
C17_NoStaleResults ==
    started =>
        /\ shown.page = "results"
        /\ \A q \in Questions(rev) : answers[q] = widgets[q]
        /\ ShowsResultsOf(shown, answers, compute_scores(rev, answers))

\* after the selection of "Initial" for a question the page shows the lowered
\* label and the new High gap of the question's section
C17_Witness ==
    /\ started
    /\ \E q \in Questions(rev) :
          /\ widgets[q] = "Initial"
          /\ answers[q] = "Initial"
          /\ shown.json_data.answers[q] = "Initial"
    /\ shown.level[1] = "Developing"
    /\ \E j \in 1..Len(shown.recommendations) :
          shown.recommendations[j].priority = "High"

\* C18: whenever the application has called compute_scores (it does so in
\* every run of a started assessment), the store it passed has an entry for
\* every catalogue question, also after a reset followed by a start, and no
\* run ends in the missing-answer failure.
C18_ScoringGetsCompleteStore ==
    /\ shown.page # "error"
    /\ started =>
          /\ DOMAIN answers = Questions(rev)
          /\ DOMAIN shown.json_data.answers = Questions(rev)
          /\ Len(shown.csv_data.rows) = Cardinality(Questions(rev))

\* scores shown for the default store after a selection was made: with one
\* selection per session only Reset and Start lead back to that store
C18_Witness ==
    /\ started
    /\ nsel = 1
    /\ shown.page = "results"
    /\ answers = [q \in Questions(rev) |-> "Defined"]
    /\ shown.overall_score = 60

\* the answer store of session s: the dict its session state refers to
StoreOf(sv, s) ==
    IF "answers" \in DOMAIN sv.session_state[s]
    THEN sv.heap[sv.session_state[s].answers]
    ELSE EmptyDict

\* everything session s owns or is shown: its session state, the content of
\* its answer store, its widgets, and its page with scores, label,
\* recommendations and exports
SessionView(sv, s) ==
    [session_state |-> sv.session_state[s],
     answers       |-> StoreOf(sv, s),
     widget_state  |-> sv.widget_state[s],
     page          |-> sv.page[s]]

\* C16: with two sessions interleaving start, selection and reset, a script
\* run of one session changes nothing of the other session (answers, scores,
\* label, recommendations, exports), the two sessions never refer to the same
\* answers dict, and the catalogue stays as loaded.
C16_SessionIsolation ==
    [][ /\ rev' = rev
        /\ \A s \in Sessions :
              s # server'.actor => SessionView(server', s) = SessionView(server, s)
        /\ \A s, t \in Sessions :
              (/\ s # t
               /\ "answers" \in DOMAIN server'.session_state[s]
               /\ "answers" \in DOMAIN server'.session_state[t])
                  => server'.session_state[s].answers # server'.session_state[t].answers
      ]_vars

\* session 2 has started after session 1 made a selection: both show results,
\* session 2 those of the default store, session 1 still its own
C16_Witness ==
    /\ server.actor = 2
    /\ server.page[1].page = "results"
    /\ server.page[2].page = "results"
    /\ StoreOf(server, 2) = [q \in Questions(rev) |-> "Defined"]
    /\ StoreOf(server, 1) # StoreOf(server, 2)
    /\ server.page[1].overall_score # server.page[2].overall_score

\* what a snapshot returned by export_to_json holds: the content of the dict
\* its "answers" member refers to, and its section scores
SnapshotView(sv, snapshot) ==
    [answers  |-> sv.heap[snapshot.answers],
     sections |-> snapshot.scores.sections]

=============================================================================
